---- MODULE Spec2Model ----
(***************************************************************************)
(* SolarController::adjust() (Firmware/SolarController.cpp): one decision  *)
(* cycle of the single-axis solar tracker, modelled statement by statement.*)
(* pc holds the source line the next statement starts at; "idle" is the    *)
(* caller's loop between two calls of adjust().                            *)
(*                                                                         *)
(* Doubles are modelled by integers: raw ADC values are small naturals and *)
(* the calibration factors are positive integers, so every product and     *)
(* difference of the code is exact.                                        *)
(***************************************************************************)
EXTENDS Integers, Sequences, FiniteSets, TLC

\* ---- bounds of the model ------------------------------------------------
\* raw analogue readings of an LDR are 0..MaxRaw
MaxRaw == 1
\* calibration factors are 1..MaxCal
MaxCal == 2
\* THRESHOLD_TURN is configured in 0..MaxThreshold
MaxThreshold == 1
\* millis() returns k * 1500 for k in 0..MaxClock
MaxClock == 1

RawValues == 0..MaxRaw
CalValues == 1..MaxCal
ThresholdValues == 0..MaxThreshold
MillisValues == {k * 1500 : k \in 0..MaxClock}

\* ---- Arduino pin levels -------------------------------------------------
LOW == FALSE
HIGH == TRUE

VARIABLES
  pc,                  \* next source line of adjust(), or "idle"
  THRESHOLD_TURN,      \* configuration, set once
  left_cal,            \* configuration, set once
  right_cal,           \* configuration, set once
  isAdjusting,         \* run-state flag, toggled from outside
  leftSwitchActive,    \* global written at line 11
  rightSwitchActive,   \* global written at line 16
  runtime,             \* local, line 7
  rightSample,         \* local, lines 23-24
  leftSample,          \* local, lines 26-27
  ldr_1Diff,           \* local, line 30
  RelayModule4chPins,  \* output level of relay pins [0] and [1]
  LEDB_PIN_VIN,        \* output level of the left indicator
  LEDY_PIN_VIN,        \* output level of the right indicator
  log,                 \* text printed on Serial during the current call
  printlns,            \* number of println calls of the current call
  \* history variables (not program state)
  relayAtStart,        \* relay levels when the current call started
  adjReads,            \* values of isAdjusting read so far in the current call
  rawReads,            \* raw values read from the sensors in the current call
  prevIn,              \* inputs of the previous call not yet compared, -1 = none
  same,                \* the current call has so far read what the previous read
  outWrites            \* output pins written so far in the current call, in order

config == <<THRESHOLD_TURN, left_cal, right_cal>>
switches == <<leftSwitchActive, rightSwitchActive>>
locals == <<runtime, rightSample, leftSample, ldr_1Diff>>
leds == <<LEDB_PIN_VIN, LEDY_PIN_VIN>>
serial == <<log, printlns>>
history == <<relayAtStart, adjReads, rawReads, prevIn, same>>
vars == <<pc, config, isAdjusting, switches, locals, RelayModule4chPins,
          leds, serial, history, outWrites>>

\* ---- helpers ------------------------------------------------------------
\* Arduino.h:  #define abs(x) ((x)>0?(x):-(x))
Abs(x) == IF x > 0 THEN x ELSE -x

\* Serial.print of a bool prints it as an int
BoolText(b) == IF b THEN "1" ELSE "0"

B2N(b) == IF b THEN 1 ELSE 0

NoRaw == [sw1 |-> -1, sw2 |-> -1, ldr1a |-> -1, ldr1b |-> -1,
          ldr2a |-> -1, ldr2b |-> -1]
NoPrev == [la |-> -1, ra |-> -1, l |-> -1, r |-> -1, adj |-> -1]

\* the single value of isAdjusting a call has read: 1, 0, 2 = both
AdjOf(reads) ==
  IF \A i \in DOMAIN reads : reads[i] THEN 1
  ELSE IF \A i \in DOMAIN reads : ~reads[i] THEN 0
  ELSE 2

\* history: the current call read value v for input f of the previous call
Compare(f, v) ==
  LET ok == same /\ prevIn[f] = v
  IN /\ same' = ok
     /\ prevIn' = IF ok
                  THEN (IF f = "adj" THEN prevIn ELSE [prevIn EXCEPT ![f] = -1])
                  ELSE NoPrev

\* digitalWrite(RelayModule4chPins[i], level)
WriteRelay(i, level) ==
  /\ RelayModule4chPins' = [RelayModule4chPins EXCEPT ![i] = level]
  /\ outWrites' = Append(outWrites, IF i = 0 THEN "R0" ELSE "R1")

\* a read of the global isAdjusting
ReadAdjusting ==
  /\ adjReads' = Append(adjReads, isAdjusting)
  /\ Compare("adj", B2N(isAdjusting))
  /\ UNCHANGED <<relayAtStart, rawReads>>

Init ==
  /\ pc = "idle"
  /\ THRESHOLD_TURN \in ThresholdValues
  /\ left_cal \in CalValues
  /\ right_cal \in CalValues
  /\ isAdjusting \in BOOLEAN
  /\ leftSwitchActive = FALSE
  /\ rightSwitchActive = FALSE
  /\ runtime = 0
  /\ rightSample = 0
  /\ leftSample = 0
  /\ ldr_1Diff = 0
  /\ RelayModule4chPins = [i \in 0..1 |-> LOW]
  /\ LEDB_PIN_VIN = LOW
  /\ LEDY_PIN_VIN = LOW
  /\ log = <<>>
  /\ printlns = 0
  /\ relayAtStart = [i \in 0..1 |-> LOW]
  /\ adjReads = <<>>
  /\ rawReads = NoRaw
  /\ prevIn = NoPrev
  /\ same = FALSE
  /\ outWrites = <<>>

\* ---- the environment ----------------------------------------------------
\* isAdjusting is set from outside adjust(), at any moment
Toggle ==
  /\ isAdjusting' = ~isAdjusting
  /\ UNCHANGED <<pc, config, switches, locals, RelayModule4chPins, leds,
                 serial, history, outWrites>>

\* ---- adjust(), lines 7-41: sampling -------------------------------------
\* lines 7-9
adjust_L7 ==
  /\ pc = "idle"
  /\ \E m \in MillisValues :
       /\ runtime' = m
       /\ log' = <<ToString(m \div 1000), "s ">>
  /\ printlns' = 0
  /\ relayAtStart' = RelayModule4chPins
  /\ outWrites' = <<>>
  /\ adjReads' = <<>>
  /\ rawReads' = NoRaw
  /\ same' = (prevIn.adj \in {0, 1})
  /\ prevIn' = IF prevIn.adj \in {0, 1} THEN prevIn ELSE NoPrev
  /\ pc' = "L11"
  /\ UNCHANGED <<config, isAdjusting, switches, rightSample, leftSample,
                 ldr_1Diff, RelayModule4chPins, leds>>

\* mutation of adjust_L11: the raw pin level is taken without negation
adjust_L11_NoNegation ==
  /\ pc = "L11"
  /\ \E raw \in BOOLEAN :
       /\ leftSwitchActive' = raw
       /\ rawReads' = [rawReads EXCEPT !.sw1 = B2N(raw)]
       /\ Compare("la", B2N(raw))
  /\ pc' = "L12"
  /\ UNCHANGED <<config, isAdjusting, rightSwitchActive, locals,
                 RelayModule4chPins, leds, serial, relayAtStart, adjReads>>
  /\ UNCHANGED outWrites

\* line 11
adjust_L11 ==
  /\ pc = "L11"
  /\ \E raw \in BOOLEAN :
       /\ leftSwitchActive' = ~raw
       /\ rawReads' = [rawReads EXCEPT !.sw1 = B2N(raw)]
       /\ Compare("la", B2N(~raw))
  /\ pc' = "L12"
  /\ UNCHANGED <<config, isAdjusting, rightSwitchActive, locals,
                 RelayModule4chPins, leds, serial, relayAtStart, adjReads>>
  /\ UNCHANGED outWrites

\* lines 12-14
adjust_L12 ==
  /\ pc = "L12"
  /\ LEDB_PIN_VIN' = leftSwitchActive
  /\ outWrites' = Append(outWrites, "LEDB")
  /\ log' = log \o <<BoolText(leftSwitchActive), "L/">>
  /\ pc' = "L16"
  /\ UNCHANGED <<config, isAdjusting, switches, locals, RelayModule4chPins,
                 LEDY_PIN_VIN, printlns, history>>

\* line 16
adjust_L16 ==
  /\ pc = "L16"
  /\ \E raw \in BOOLEAN :
       /\ rightSwitchActive' = ~raw
       /\ rawReads' = [rawReads EXCEPT !.sw2 = B2N(raw)]
       /\ Compare("ra", B2N(~raw))
  /\ pc' = "L17"
  /\ UNCHANGED <<config, isAdjusting, leftSwitchActive, locals,
                 RelayModule4chPins, leds, serial, relayAtStart, adjReads>>
  /\ UNCHANGED outWrites

\* lines 17-19
adjust_L17 ==
  /\ pc = "L17"
  /\ LEDY_PIN_VIN' = rightSwitchActive
  /\ outWrites' = Append(outWrites, "LEDY")
  /\ log' = log \o <<BoolText(rightSwitchActive), "R ">>
  /\ pc' = "L23"
  /\ UNCHANGED <<config, isAdjusting, switches, locals, RelayModule4chPins,
                 LEDB_PIN_VIN, printlns, history>>

\* line 23: first read of ldr_1, overwritten by line 24
adjust_L23 ==
  /\ pc = "L23"
  /\ \E raw \in RawValues :
       /\ rightSample' = raw
       /\ rawReads' = [rawReads EXCEPT !.ldr1a = raw]
  /\ pc' = "L24"
  /\ UNCHANGED <<config, isAdjusting, switches, runtime, leftSample,
                 ldr_1Diff, RelayModule4chPins, leds, serial, relayAtStart,
                 adjReads, prevIn, same>>
  /\ UNCHANGED outWrites

\* mutation of adjust_L24: the right sample is scaled by the left factor
adjust_L24_WrongCal ==
  /\ pc = "L24"
  /\ \E raw \in RawValues :
       /\ rightSample' = raw * left_cal
       /\ rawReads' = [rawReads EXCEPT !.ldr1b = raw]
       /\ Compare("r", raw * left_cal)
  /\ pc' = "L26"
  /\ UNCHANGED <<config, isAdjusting, switches, runtime, leftSample,
                 ldr_1Diff, RelayModule4chPins, leds, serial, relayAtStart,
                 adjReads>>
  /\ UNCHANGED outWrites

\* line 24
adjust_L24 ==
  /\ pc = "L24"
  /\ \E raw \in RawValues :
       /\ rightSample' = raw * right_cal
       /\ rawReads' = [rawReads EXCEPT !.ldr1b = raw]
       /\ Compare("r", raw * right_cal)
  /\ pc' = "L26"
  /\ UNCHANGED <<config, isAdjusting, switches, runtime, leftSample,
                 ldr_1Diff, RelayModule4chPins, leds, serial, relayAtStart,
                 adjReads>>
  /\ UNCHANGED outWrites

\* line 26: first read of ldr_2, overwritten by line 27
adjust_L26 ==
  /\ pc = "L26"
  /\ \E raw \in RawValues :
       /\ leftSample' = raw
       /\ rawReads' = [rawReads EXCEPT !.ldr2a = raw]
  /\ pc' = "L27"
  /\ UNCHANGED <<config, isAdjusting, switches, runtime, rightSample,
                 ldr_1Diff, RelayModule4chPins, leds, serial, relayAtStart,
                 adjReads, prevIn, same>>
  /\ UNCHANGED outWrites

\* line 27
adjust_L27 ==
  /\ pc = "L27"
  /\ \E raw \in RawValues :
       /\ leftSample' = raw * left_cal
       /\ rawReads' = [rawReads EXCEPT !.ldr2b = raw]
       /\ Compare("l", raw * left_cal)
  /\ pc' = "L30"
  /\ UNCHANGED <<config, isAdjusting, switches, runtime, rightSample,
                 ldr_1Diff, RelayModule4chPins, leds, serial, relayAtStart,
                 adjReads>>
  /\ UNCHANGED outWrites

\* lines 30-41
adjust_L30 ==
  /\ pc = "L30"
  /\ ldr_1Diff' = leftSample - rightSample
  /\ log' = log \o <<"Left: ", ToString(leftSample), " - ",
                     "Right: ", ToString(rightSample), " - ",
                     "Diff: ", ToString(leftSample - rightSample)>>
  /\ pc' = "L43"
  /\ UNCHANGED <<config, isAdjusting, switches, runtime, rightSample,
                 leftSample, RelayModule4chPins, leds, printlns, history>>
  /\ UNCHANGED outWrites

Sampling ==
  \/ adjust_L7
  \/ adjust_L11
  \/ adjust_L12
  \/ adjust_L16
  \/ adjust_L17
  \/ adjust_L23
  \/ adjust_L24
  \/ adjust_L26
  \/ adjust_L27
  \/ adjust_L30

\* ---- adjust(), lines 43-90: decision -----------------------------------
\* mutation of adjust_L43: the gate tests the signed difference shifted by
\* one, so a zero difference passes a zero threshold
adjust_L43_OffByOne ==
  /\ pc = "L43"
  /\ IF Abs(ldr_1Diff) + 1 > THRESHOLD_TURN
     THEN /\ log' = Append(log, " (turn")
          /\ pc' = "L46"
     ELSE /\ log' = log
          /\ pc' = "L83"
  /\ UNCHANGED <<config, isAdjusting, switches, locals, RelayModule4chPins,
                 leds, printlns, history>>
  /\ UNCHANGED outWrites

\* mutation of adjust_L43: the gate tests >= instead of >
adjust_L43_Inclusive ==
  /\ pc = "L43"
  /\ IF Abs(ldr_1Diff) >= THRESHOLD_TURN
     THEN /\ log' = Append(log, " (turn")
          /\ pc' = "L46"
     ELSE /\ log' = log
          /\ pc' = "L83"
  /\ UNCHANGED <<config, isAdjusting, switches, locals, RelayModule4chPins,
                 leds, printlns, history>>
  /\ UNCHANGED outWrites

\* lines 43-44
adjust_L43 ==
  /\ pc = "L43"
  /\ IF Abs(ldr_1Diff) > THRESHOLD_TURN
     THEN /\ log' = Append(log, " (turn")
          /\ pc' = "L46"
     ELSE /\ log' = log
          /\ pc' = "L83"
  /\ UNCHANGED <<config, isAdjusting, switches, locals, RelayModule4chPins,
                 leds, printlns, history>>
  /\ UNCHANGED outWrites

\* lines 46-48
adjust_L46 ==
  /\ pc = "L46"
  /\ IF leftSample > rightSample
     THEN /\ log' = Append(log, " left")
          /\ pc' = "L49"
     ELSE /\ log' = log
          /\ pc' = "L58"
  /\ UNCHANGED <<config, isAdjusting, switches, locals, RelayModule4chPins,
                 leds, printlns, history>>
  /\ UNCHANGED outWrites

\* mutation of adjust_L49: the left relay is not cleared
adjust_L49_NoClear ==
  /\ pc = "L49"
  /\ pc' = "L50"
  /\ UNCHANGED <<config, isAdjusting, switches, locals, RelayModule4chPins,
                 leds, serial, history>>
  /\ UNCHANGED outWrites

\* line 49
adjust_L49 ==
  /\ pc = "L49"
  /\ WriteRelay(0, LOW)
  /\ pc' = "L50"
  /\ UNCHANGED <<config, isAdjusting, switches, locals, leds, serial, history>>

\* mutation of adjust_L50: the left limit switch is not consulted
adjust_L50_IgnoreLimit ==
  /\ pc = "L50"
  /\ pc' = "L53"
  /\ UNCHANGED <<config, isAdjusting, switches, locals, RelayModule4chPins,
                 leds, serial, history>>
  /\ UNCHANGED outWrites

\* lines 50, 52
adjust_L50 ==
  /\ pc = "L50"
  /\ pc' = IF leftSwitchActive THEN "L51" ELSE "L53"
  /\ UNCHANGED <<config, isAdjusting, switches, locals, RelayModule4chPins,
                 leds, serial, history>>
  /\ UNCHANGED outWrites

\* mutation of adjust_L51: the limit does not stop the right relay
adjust_L51_NoStop ==
  /\ pc = "L51"
  /\ pc' = "L58"
  /\ UNCHANGED <<config, isAdjusting, switches, locals, RelayModule4chPins,
                 leds, serial, history>>
  /\ UNCHANGED outWrites

\* mutation of adjust_L51: reaching the limit also ends adjusting
adjust_L51_StopsAdjusting ==
  /\ pc = "L51"
  /\ WriteRelay(1, LOW)
  /\ isAdjusting' = FALSE
  /\ pc' = "L58"
  /\ UNCHANGED <<config, switches, locals, leds, serial, history>>

\* line 51
adjust_L51 ==
  /\ pc = "L51"
  /\ WriteRelay(1, LOW)
  /\ pc' = "L58"
  /\ UNCHANGED <<config, isAdjusting, switches, locals, leds, serial, history>>

\* line 53
adjust_L53 ==
  /\ pc = "L53"
  /\ ReadAdjusting
  /\ pc' = IF isAdjusting THEN "L54" ELSE "L58"
  /\ UNCHANGED <<config, isAdjusting, switches, locals, RelayModule4chPins,
                 leds, serial>>
  /\ UNCHANGED outWrites

\* mutation of adjust_L54: the right relay is inverted instead of set
adjust_L54_Invert ==
  /\ pc = "L54"
  /\ WriteRelay(1, ~RelayModule4chPins[1])
  /\ pc' = "L58"
  /\ UNCHANGED <<config, isAdjusting, switches, locals, leds, serial, history>>

\* line 54
adjust_L54 ==
  /\ pc = "L54"
  /\ WriteRelay(1, HIGH)
  /\ pc' = "L58"
  /\ UNCHANGED <<config, isAdjusting, switches, locals, leds, serial, history>>

\* mutation of adjust_L58: the direction is not printed
adjust_L58_NoText ==
  /\ pc = "L58"
  /\ log' = log
  /\ pc' = IF leftSample < rightSample THEN "L62" ELSE "L72"
  /\ UNCHANGED <<config, isAdjusting, switches, locals, RelayModule4chPins,
                 leds, printlns, history>>
  /\ UNCHANGED outWrites

\* lines 58-61
adjust_L58 ==
  /\ pc = "L58"
  /\ IF leftSample < rightSample
     THEN /\ log' = Append(log, " right")
          /\ pc' = "L62"
     ELSE /\ log' = log
          /\ pc' = "L72"
  /\ UNCHANGED <<config, isAdjusting, switches, locals, RelayModule4chPins,
                 leds, printlns, history>>
  /\ UNCHANGED outWrites

\* mutation of adjust_L62: the right relay is not cleared
adjust_L62_NoClear ==
  /\ pc = "L62"
  /\ pc' = "L64"
  /\ UNCHANGED <<config, isAdjusting, switches, locals, RelayModule4chPins,
                 leds, serial, history>>
  /\ UNCHANGED outWrites

\* line 62
adjust_L62 ==
  /\ pc = "L62"
  /\ WriteRelay(1, LOW)
  /\ pc' = "L64"
  /\ UNCHANGED <<config, isAdjusting, switches, locals, leds, serial, history>>

\* lines 64, 66
adjust_L64 ==
  /\ pc = "L64"
  /\ pc' = IF rightSwitchActive THEN "L65" ELSE "L67"
  /\ UNCHANGED <<config, isAdjusting, switches, locals, RelayModule4chPins,
                 leds, serial, history>>
  /\ UNCHANGED outWrites

\* mutation of adjust_L65: the limit does not stop the left relay
adjust_L65_NoStop ==
  /\ pc = "L65"
  /\ pc' = "L72"
  /\ UNCHANGED <<config, isAdjusting, switches, locals, RelayModule4chPins,
                 leds, serial, history>>
  /\ UNCHANGED outWrites

\* line 65
adjust_L65 ==
  /\ pc = "L65"
  /\ WriteRelay(0, LOW)
  /\ pc' = "L72"
  /\ UNCHANGED <<config, isAdjusting, switches, locals, leds, serial, history>>

\* line 67
adjust_L67 ==
  /\ pc = "L67"
  /\ ReadAdjusting
  /\ pc' = IF isAdjusting THEN "L68" ELSE "L72"
  /\ UNCHANGED <<config, isAdjusting, switches, locals, RelayModule4chPins,
                 leds, serial>>
  /\ UNCHANGED outWrites

\* mutation of adjust_L68: the wrong relay pin is driven
adjust_L68_WrongPin ==
  /\ pc = "L68"
  /\ WriteRelay(1, HIGH)
  /\ pc' = "L72"
  /\ UNCHANGED <<config, isAdjusting, switches, locals, leds, serial, history>>

\* line 68
adjust_L68 ==
  /\ pc = "L68"
  /\ WriteRelay(0, HIGH)
  /\ pc' = "L72"
  /\ UNCHANGED <<config, isAdjusting, switches, locals, leds, serial, history>>

\* mutation of adjust_L72: the turn status is printed without a line end
adjust_L72_Print ==
  /\ pc = "L72"
  /\ ReadAdjusting
  /\ IF isAdjusting
     THEN /\ log' = Append(log, ") ")
          /\ printlns' = printlns
          /\ pc' = "L92"
     ELSE /\ UNCHANGED serial
          /\ pc' = "L76"
  /\ UNCHANGED <<config, isAdjusting, switches, locals, RelayModule4chPins,
                 leds>>
  /\ UNCHANGED outWrites

\* lines 72-75
adjust_L72 ==
  /\ pc = "L72"
  /\ ReadAdjusting
  /\ IF isAdjusting
     THEN /\ log' = Append(log, ") ")
          /\ printlns' = printlns + 1
          /\ pc' = "L92"
     ELSE /\ UNCHANGED serial
          /\ pc' = "L76"
  /\ UNCHANGED <<config, isAdjusting, switches, locals, RelayModule4chPins,
                 leds>>
  /\ UNCHANGED outWrites

\* mutation of adjust_L76: the right relay is not cleared when sleeping
adjust_L76_NoClear ==
  /\ pc = "L76"
  /\ pc' = "L77"
  /\ UNCHANGED <<config, isAdjusting, switches, locals, RelayModule4chPins,
                 leds, serial, history>>
  /\ UNCHANGED outWrites

\* line 76
adjust_L76 ==
  /\ pc = "L76"
  /\ WriteRelay(1, LOW)
  /\ pc' = "L77"
  /\ UNCHANGED <<config, isAdjusting, switches, locals, leds, serial, history>>

\* mutation of adjust_L77: the left relay is not cleared when sleeping
adjust_L77_NoClear ==
  /\ pc = "L77"
  /\ log' = Append(log, " - sleeping)")
  /\ printlns' = printlns + 1
  /\ pc' = "L92"
  /\ UNCHANGED <<config, isAdjusting, switches, locals, RelayModule4chPins,
                 leds, history>>
  /\ UNCHANGED outWrites

\* lines 77-78
adjust_L77 ==
  /\ pc = "L77"
  /\ WriteRelay(0, LOW)
  /\ log' = Append(log, " - sleeping)")
  /\ printlns' = printlns + 1
  /\ pc' = "L92"
  /\ UNCHANGED <<config, isAdjusting, switches, locals, leds, history>>

\* mutation of adjust_L83: the aligned branch waits until adjusting resumes
adjust_L83_Wait ==
  /\ pc = "L83"
  /\ isAdjusting
  /\ WriteRelay(1, LOW)
  /\ pc' = "L84"
  /\ UNCHANGED <<config, isAdjusting, switches, locals, leds, serial, history>>

\* line 83
adjust_L83 ==
  /\ pc = "L83"
  /\ WriteRelay(1, LOW)
  /\ pc' = "L84"
  /\ UNCHANGED <<config, isAdjusting, switches, locals, leds, serial, history>>

\* line 84
adjust_L84 ==
  /\ pc = "L84"
  /\ WriteRelay(0, LOW)
  /\ pc' = "L86"
  /\ UNCHANGED <<config, isAdjusting, switches, locals, leds, serial, history>>

\* mutation of adjust_L86: the two status texts are exchanged
adjust_L86_Swapped ==
  /\ pc = "L86"
  /\ ReadAdjusting
  /\ log' = Append(log, IF isAdjusting THEN " sleeping" ELSE " nothing to do")
  /\ printlns' = printlns + 1
  /\ pc' = "L92"
  /\ UNCHANGED <<config, isAdjusting, switches, locals, RelayModule4chPins,
                 leds>>
  /\ UNCHANGED outWrites

\* lines 86-89
adjust_L86 ==
  /\ pc = "L86"
  /\ ReadAdjusting
  /\ log' = Append(log, IF isAdjusting THEN " nothing to do" ELSE " sleeping")
  /\ printlns' = printlns + 1
  /\ pc' = "L92"
  /\ UNCHANGED <<config, isAdjusting, switches, locals, RelayModule4chPins,
                 leds>>
  /\ UNCHANGED outWrites

\* line 92: adjust() returns to its caller; its locals end
adjust_L92 ==
  /\ pc = "L92"
  /\ pc' = "idle"
  /\ runtime' = 0
  /\ rightSample' = 0
  /\ leftSample' = 0
  /\ ldr_1Diff' = 0
  /\ prevIn' = [la |-> B2N(leftSwitchActive), ra |-> B2N(rightSwitchActive),
                l |-> leftSample, r |-> rightSample, adj |-> AdjOf(adjReads)]
  /\ same' = FALSE
  /\ UNCHANGED <<config, isAdjusting, switches, RelayModule4chPins, leds,
                 serial, relayAtStart, adjReads, rawReads>>
  /\ UNCHANGED outWrites

Decision ==
  \/ adjust_L43
  \/ adjust_L46
  \/ adjust_L49
  \/ adjust_L50
  \/ adjust_L51
  \/ adjust_L53
  \/ adjust_L54
  \/ adjust_L58
  \/ adjust_L62
  \/ adjust_L64
  \/ adjust_L65
  \/ adjust_L67
  \/ adjust_L68
  \/ adjust_L72
  \/ adjust_L76
  \/ adjust_L77
  \/ adjust_L83
  \/ adjust_L84
  \/ adjust_L86
  \/ adjust_L92

\* one statement of adjust()
adjust == Sampling \/ Decision

Next ==
  \/ Toggle
  \/ adjust

Spec == Init /\ [][Next]_vars

\* the caller's loop() calls adjust() again and again and the processor
\* executes the next statement of a call
FairSpec == Spec /\ WF_vars(adjust)

\* ---- vocabulary of the properties ---------------------------------------
\* adjust() has executed its last statement and is about to return
TickEnd == pc = "L92"

BothOff == [i \in 0..1 |-> LOW]
LeftOn == [i \in 0..1 |-> IF i = 0 THEN HIGH ELSE LOW]
RightOn == [i \in 0..1 |-> IF i = 1 THEN HIGH ELSE LOW]

\* every read of isAdjusting in the current call returned v
TickAdjusting(v) == adjReads # <<>> /\ \A i \in DOMAIN adjReads : adjReads[i] = v

Aligned == Abs(leftSample - rightSample) <= THRESHOLD_TURN

\* C1: after every call of adjust() at most one of the two relay outputs is
\* HIGH, whatever was sampled and whatever isAdjusting was.
C1_AtMostOneRelayOn ==
  (TickEnd \/ pc = "idle") =>
     ~(RelayModule4chPins[0] = HIGH /\ RelayModule4chPins[1] = HIGH)

\* a call has ended with a relay on
C1_Witness ==
  /\ TickEnd
  /\ RelayModule4chPins = RightOn
  /\ relayAtStart = LeftOn

\* C2: at every point of a call, between any two relay writes, the two relays
\* are not both HIGH, and a relay is written HIGH only when the other one is
\* already LOW (lines 49 before 54, 62 before 68).
C2_OffBeforeOn ==
  /\ ~(RelayModule4chPins[0] = HIGH /\ RelayModule4chPins[1] = HIGH)
  /\ pc = "L54" => RelayModule4chPins[0] = LOW
  /\ pc = "L68" => RelayModule4chPins[1] = LOW

\* the brighter side flipped: the left relay was HIGH when the call started
\* and the call is about to write the right relay HIGH
C2_Witness ==
  /\ pc = "L54"
  /\ relayAtStart[0] = HIGH
  /\ RelayModule4chPins[0] = LOW

\* C3: a call that sampled |left - right| <= THRESHOLD_TURN ends with both
\* relays LOW, whatever isAdjusting, the switches and the relays were.
C3_AlignedBothOff ==
  (TickEnd /\ Aligned) => RelayModule4chPins = BothOff

\* boundary equality, a relay on before the call, isAdjusting true
C3_Witness ==
  /\ TickEnd
  /\ THRESHOLD_TURN > 0
  /\ Abs(leftSample - rightSample) = THRESHOLD_TURN
  /\ relayAtStart # BothOff
  /\ TickAdjusting(TRUE)
  /\ RelayModule4chPins = BothOff

\* C4: a call in which isAdjusting was false (at every read of the flag) ends
\* with both relays LOW, whatever the samples, switches and relays were.
C4_SleepingBothOff ==
  (TickEnd /\ TickAdjusting(FALSE)) => RelayModule4chPins = BothOff

\* light beyond the threshold, switch inactive, a relay left HIGH by an
\* earlier call
C4_Witness ==
  /\ TickEnd
  /\ TickAdjusting(FALSE)
  /\ ~Aligned
  /\ leftSample > rightSample
  /\ ~leftSwitchActive
  /\ relayAtStart = RightOn
  /\ RelayModule4chPins = BothOff

\* C5: a call that read the limit switch of the brighter side active ends
\* with both relays LOW.
C5_LimitBothOff ==
  (TickEnd /\ (\/ leftSwitchActive /\ leftSample > rightSample
               \/ rightSwitchActive /\ rightSample > leftSample))
     => RelayModule4chPins = BothOff

\* limit reached while the relay was driven and isAdjusting is true
C5_Witness ==
  /\ TickEnd
  /\ leftSwitchActive
  /\ leftSample > rightSample
  /\ ~Aligned
  /\ TickAdjusting(TRUE)
  /\ relayAtStart = RightOn
  /\ RelayModule4chPins = BothOff

\* C6: with isAdjusting true and the difference beyond the threshold, more
\* light left and left switch inactive ends with right relay HIGH and left
\* relay LOW; more light right and right switch inactive ends with left relay
\* HIGH and right relay LOW.
C6_DrivesTowardLight ==
  (TickEnd /\ TickAdjusting(TRUE) /\ ~Aligned) =>
     /\ (leftSample > rightSample /\ ~leftSwitchActive)
           => RelayModule4chPins = RightOn
     /\ (leftSample < rightSample /\ ~rightSwitchActive)
           => RelayModule4chPins = LeftOn

\* more light right, the other side's switch active, the other relay on
\* before the call
C6_Witness ==
  /\ TickEnd
  /\ TickAdjusting(TRUE)
  /\ ~Aligned
  /\ leftSample < rightSample
  /\ ~rightSwitchActive
  /\ leftSwitchActive
  /\ relayAtStart = RightOn
  /\ RelayModule4chPins = LeftOn

\* relay i is the one driven when the light comes from this side
Brighter(i) ==
  IF i = 1 THEN leftSample - rightSample > THRESHOLD_TURN
           ELSE rightSample - leftSample > THRESHOLD_TURN
LimitOf(i) == IF i = 1 THEN leftSwitchActive ELSE rightSwitchActive

\* C7: a relay that was HIGH when a call started is HIGH when it ends if the
\* light is still beyond the threshold on its side, its limit switch is
\* inactive and isAdjusting is true; it is LOW when the call ends if its limit
\* switch was read active or |diff| <= THRESHOLD_TURN.
C7_RunsUntilLimitOrAligned ==
  TickEnd =>
    \A i \in 0..1 :
      relayAtStart[i] = HIGH =>
        /\ (Brighter(i) /\ ~LimitOf(i) /\ TickAdjusting(TRUE))
              => RelayModule4chPins[i] = HIGH
        /\ (LimitOf(i) \/ Aligned) => RelayModule4chPins[i] = LOW

\* a relay turned on by an earlier call is still on after this one
C7_Witness ==
  /\ TickEnd
  /\ relayAtStart = RightOn
  /\ Brighter(1)
  /\ ~leftSwitchActive
  /\ TickAdjusting(TRUE)
  /\ RelayModule4chPins = RightOn

\* C8: a call that read the same samples, switches and isAdjusting as the
\* call before it ends with the relays the call before it ended with.
C8_Idempotent ==
  (TickEnd /\ same) => RelayModule4chPins = relayAtStart

\* the second of two identical calls, a relay on
C8_Witness ==
  /\ TickEnd
  /\ same
  /\ RelayModule4chPins = LeftOn

\* the relay command of one decision cycle as a function of its inputs
Decide(l, r, la, ra, adj, threshold) ==
  IF Abs(l - r) <= threshold \/ ~adj THEN BothOff
  ELSE IF l > r THEN (IF la THEN BothOff ELSE RightOn)
  ELSE (IF ra THEN BothOff ELSE LeftOn)

\* C9: the relays at the end of a call are a function of the call's samples,
\* switch readings, isAdjusting and THRESHOLD_TURN only: not of the relays
\* before the call, not of the elapsed runtime.  isAdjusting is the value v
\* that every read of the flag in the call returned; THRESHOLD_TURN >= 0.
C9_FunctionOfInputs ==
  \A v \in BOOLEAN :
    (TickEnd /\ TickAdjusting(v)) =>
       RelayModule4chPins = Decide(leftSample, rightSample, leftSwitchActive,
                                   rightSwitchActive, v, THRESHOLD_TURN)

\* a call that started with a relay on and a nonzero runtime and ended with
\* the other command
C9_Witness ==
  /\ TickEnd
  /\ TickAdjusting(TRUE)
  /\ runtime > 0
  /\ relayAtStart = RightOn
  /\ RelayModule4chPins = LeftOn

\* C10: every read of isAdjusting in one call returns the same value, so the
\* relay writes and the status text of a call never come from two values.
C10_OneFlagValuePerTick ==
  TickEnd => (TickAdjusting(TRUE) \/ TickAdjusting(FALSE))

\* ---- the diagnostic line ------------------------------------------------
\* token t is followed by token u in the printed line
Printed(t, u) == \E i \in 1..(Len(log) - 1) : log[i] = t /\ log[i + 1] = u
\* the last token printed
Status == log[Len(log)]
\* the value of isAdjusting the status test (line 72 or 86) read
StatusRead == adjReads[Len(adjReads)]

\* C11: a call executes exactly one println: none before its last statement,
\* one when it ends, on every path.
C11_OneLinePerTick ==
  /\ printlns <= 1
  /\ TickEnd => printlns = 1
  /\ (pc \notin {"L92", "idle"}) => printlns = 0

\* the path through both direction tests and the sleeping branch
C11_Witness ==
  /\ TickEnd
  /\ printlns = 1
  /\ Printed(" (turn", " right")
  /\ Status = " - sleeping)"

\* C12: when |left - right| > THRESHOLD_TURN the line names the brighter
\* side, "turn left" for left > right and "turn right" for left < right, and
\* no other direction, also when no relay is driven.
C12_LogNamesBrighterSide ==
  (TickEnd /\ ~Aligned) =>
     /\ leftSample > rightSample =>
          (Printed(" (turn", " left") /\ \A i \in DOMAIN log : log[i] # " right")
     /\ leftSample < rightSample =>
          (Printed(" (turn", " right") /\ \A i \in DOMAIN log : log[i] # " left")

\* more light right, right limit switch active: no motion, direction named
C12_Witness ==
  /\ TickEnd
  /\ ~Aligned
  /\ leftSample < rightSample
  /\ rightSwitchActive
  /\ TickAdjusting(TRUE)
  /\ RelayModule4chPins = BothOff
  /\ Printed(" (turn", " right")

Sleeping == Status \in {" sleeping", " - sleeping)"}
NothingToDo == Status = " nothing to do"

\* C13: the line reports "sleeping" exactly when the status test read
\* isAdjusting false, aligned or not; it reports "nothing to do" exactly when
\* it read true and |left - right| <= THRESHOLD_TURN; a call that reports
\* either ends with both relays LOW.
C13_StatusText ==
  TickEnd =>
     /\ Sleeping <=> ~StatusRead
     /\ NothingToDo <=> (StatusRead /\ Aligned)
     /\ (Sleeping \/ NothingToDo) => RelayModule4chPins = BothOff

\* sleeping beyond the threshold with a relay on before the call
C13_Witness ==
  /\ TickEnd
  /\ ~Aligned
  /\ Sleeping
  /\ TickAdjusting(FALSE)
  /\ relayAtStart = LeftOn
  /\ RelayModule4chPins = BothOff

\* ---- switches and indicators --------------------------------------------
IsRelayWrite(i) == outWrites[i] \in {"R0", "R1"}

\* C14: each switch state is the negation of the raw pin level read in the
\* call; each indicator is written with that state, LEDB first, LEDY second,
\* both before any relay write, on every path; when the call ends each
\* indicator equals the switch state the decision used.
C14_SwitchesAndIndicators ==
  /\ rawReads.sw1 # -1 => leftSwitchActive = (rawReads.sw1 = 0)
  /\ rawReads.sw2 # -1 => rightSwitchActive = (rawReads.sw2 = 0)
  /\ \A i \in DOMAIN outWrites :
        IsRelayWrite(i) => (i > 2 /\ outWrites[1] = "LEDB" /\ outWrites[2] = "LEDY")
  /\ (pc \notin {"idle", "L11", "L12", "L16", "L17"}) =>
        /\ Len(outWrites) >= 2
        /\ outWrites[1] = "LEDB"
        /\ outWrites[2] = "LEDY"
        /\ LEDB_PIN_VIN = leftSwitchActive
        /\ LEDY_PIN_VIN = rightSwitchActive

\* left pin read low (active), right pin read high, relays written afterwards
C14_Witness ==
  /\ TickEnd
  /\ rawReads.sw1 = 0
  /\ rawReads.sw2 = 1
  /\ LEDB_PIN_VIN = HIGH
  /\ LEDY_PIN_VIN = LOW
  /\ Len(outWrites) = 4
  /\ IsRelayWrite(3)

\* C15: no statement of adjust() changes isAdjusting, left_cal, right_cal or
\* THRESHOLD_TURN.
C15_ConfigUntouched ==
  [][adjust => UNCHANGED <<isAdjusting, THRESHOLD_TURN, left_cal, right_cal>>]_vars

\* a call that wrote both indicators, both relays and the log line
C15_Witness ==
  /\ TickEnd
  /\ leftSwitchActive
  /\ leftSample > rightSample
  /\ ~Aligned
  /\ Len(outWrites) = 4
  /\ printlns = 1
  /\ RelayModule4chPins # relayAtStart

\* C16: a call that has started reaches its return, and adjust() always has a
\* next statement to execute: it waits for nothing.
C16_TickCompletes ==
  /\ (pc # "idle") ~> (pc = "idle")
  /\ [](ENABLED adjust)

\* a call after an earlier one has run to its end on the longest path
C16_Witness ==
  /\ TickEnd
  /\ relayAtStart # BothOff
  /\ Len(adjReads) = 2
  /\ Len(outWrites) = 6

\* C17: a call that read the left limit switch active ends with the right
\* relay LOW; one that read the right limit switch active ends with the left
\* relay LOW; whatever the samples, isAdjusting and the relays before.
C17_LimitProtection ==
  TickEnd =>
     /\ leftSwitchActive => RelayModule4chPins[1] = LOW
     /\ rightSwitchActive => RelayModule4chPins[0] = LOW

\* left limit active while the light is on the right: the left relay drives
\* away from the limit, the right relay that was on is off
C17_Witness ==
  /\ TickEnd
  /\ leftSwitchActive
  /\ ~rightSwitchActive
  /\ leftSample < rightSample
  /\ ~Aligned
  /\ TickAdjusting(TRUE)
  /\ relayAtStart = RightOn
  /\ RelayModule4chPins = LeftOn

\* ---- equal samples and the sample snapshot ------------------------------
\* the statements of the beyond-threshold branch, lines 46-78
TurnBranch == {"L46", "L49", "L50", "L51", "L53", "L54", "L58", "L62", "L64",
               "L65", "L67", "L68", "L72", "L76", "L77"}
\* the statements after the samples and their difference are computed
AfterSampling == TurnBranch \cup {"L43", "L83", "L84", "L86", "L92"}

C19_OneSnapshot ==
  (pc \in AfterSampling) =>
     LET l == rawReads.ldr2b * left_cal
         r == rawReads.ldr1b * right_cal
     IN /\ leftSample = l
        /\ rightSample = r
        /\ ldr_1Diff = l - r
        /\ Printed("Left: ", ToString(l))
        /\ Printed("Right: ", ToString(r))
        /\ Printed("Diff: ", ToString(l - r))
        /\ (pc \in TurnBranch) => Abs(l - r) > THRESHOLD_TURN
        /\ (pc \in {"L83", "L84", "L86"}) => Abs(l - r) <= THRESHOLD_TURN
        /\ (\E i \in DOMAIN log : log[i] = " left") => l > r
        /\ (\E i \in DOMAIN log : log[i] = " right") => l < r
        /\ (pc \in {"L49", "L50", "L51", "L53", "L54"}) => l > r
        /\ (pc \in {"L62", "L64", "L65", "L67", "L68"}) => l < r

\* both sensors changed between their two reads, the factors differ
C19_Witness ==
  /\ TickEnd
  /\ rawReads.ldr1a # rawReads.ldr1b
  /\ rawReads.ldr2a # rawReads.ldr2b
  /\ left_cal # right_cal
  /\ ~Aligned
  /\ TickAdjusting(TRUE)
  /\ RelayModule4chPins # BothOff
====
